---- MODULE Spec2Model ----
(***************************************************************************)
(* A model of cdbscan (src/src/cdbscan.c): the distance metrics, the       *)
(* KD-tree (build, nth_element, range query), the brute-force region       *)
(* query and the clustering call cdbscan_cluster with its two cluster      *)
(* expansion routines.                                                     *)
(*                                                                         *)
(* Numbers.  Coordinates are integers.  eps is the rational num/den, kept  *)
(* as the pair <<num, den>>.  A distance is kept in the form the C         *)
(* expression denotes,                                                     *)
(*    <<"neg",  a, 0, 0>>   the negative value -a        (a > 0)           *)
(*    <<"root", a, p, 0>>   the p-th root of a           (a >= 0, p >= 1)  *)
(*    <<"cos",  d, x, y>>   1 - d / (sqrt(x) * sqrt(y))  (x > 0, y > 0)    *)
(*    <<"ulp", -1, 0, 0>>   -2^-52, one unit in the last place below zero  *)
(* and the comparisons of the code (dist >= 0, dist <= eps) are decided    *)
(* on that form.  The doubles of the code round only where the value over  *)
(* the reals is not representable; on the inputs of this model that        *)
(* changes a comparison in one place, the cosine distance of parallel      *)
(* vectors, whose value 0 the code computes as 0, 2^-52 or -2^-52          *)
(* (RoundsBelowZero).                                                      *)
(* Point indices are the C indices 0 .. n-1.                               *)
(***************************************************************************)
EXTENDS Integers, Sequences, FiniteSets, TLC

(* ------------------------------ bounds --------------------------------- *)
\* most points of an enumerated data set
MaxPts == 3
\* coordinates of an enumerated data set lie in 0 .. MaxCoord
MaxCoord == 1
\* calls of cdbscan_cluster the caller makes on one data set
MaxRuns == 2
\* most allocations (malloc, calloc) that fail in one behaviour
MaxAllocFailures == 1

(* ------------------------- program constants --------------------------- *)
CDBSCAN_UNCLASSIFIED == -1
CDBSCAN_NOISE == -2
\* number of coordinates of every well-formed point of the model
Dims == 2
\* codes of the two non-finite kinds of double a coordinate can hold
NaNCode == 1000001
InfCode == 1000000
\* a null pointer to an array
NULL == <<>>

Abs(x) == IF x < 0 THEN -x ELSE x
Max2(x, y) == IF x < y THEN y ELSE x

RECURSIVE Pow(_, _)
Pow(b, e) == IF e <= 0 THEN 1 ELSE b * Pow(b, e - 1)

\* sum over i = 0 .. n-1 of f[i]  (the accumulation loops of the metrics)
RECURSIVE SumTo(_, _)
SumTo(f, n) == IF n <= 0 THEN 0 ELSE SumTo(f, n - 1) + f[n]

(* --------------------------- distance metrics -------------------------- *)
SENTINEL == <<"neg", 1, 0, 0>>

\* variant: the loop of lines 39-42 stops after the first coordinate
cdbscan_euclidean_distance_first_coord(a, b, dims) ==
    IF a = NULL \/ b = NULL \/ dims <= 0 THEN SENTINEL
    ELSE <<"root", (a[1] - b[1]) * (a[1] - b[1]), 2, 0>>

cdbscan_euclidean_distance(a, b, dims) ==
    IF a = NULL \/ b = NULL \/ dims <= 0 THEN SENTINEL
    ELSE <<"root", SumTo([i \in 1..dims |-> (a[i] - b[i]) * (a[i] - b[i])], dims), 2, 0>>

\* variant: fabs is left out and a negative difference counts as 0
cdbscan_manhattan_distance_one_sided(a, b, dims) ==
    IF a = NULL \/ b = NULL \/ dims <= 0 THEN SENTINEL
    ELSE <<"root", SumTo([i \in 1..dims |-> Max2(0, a[i] - b[i])], dims), 1, 0>>

cdbscan_manhattan_distance(a, b, dims) ==
    IF a = NULL \/ b = NULL \/ dims <= 0 THEN SENTINEL
    ELSE <<"root", SumTo([i \in 1..dims |-> Abs(a[i] - b[i])], dims), 1, 0>>

cdbscan_minkowski_distance(a, b, dims, p) ==
    IF a = NULL \/ b = NULL \/ dims <= 0 \/ p <= 0 THEN SENTINEL
    ELSE <<"root", SumTo([i \in 1..dims |-> Pow(Abs(a[i] - b[i]), p)], dims), p, 0>>

\* The pairs <<norm_a, norm_b>> (each at most 20) of parallel vectors for
\* which IEEE-754 double arithmetic gives dot / (sqrt(norm_a) * sqrt(norm_b))
\* the value 1 + 2^-52: sqrt(13) * sqrt(13) is 12.999999999999998.
RoundsBelowZero ==
    {<<3, 3>>, <<3, 12>>, <<12, 3>>, <<6, 6>>, <<12, 12>>, <<13, 13>>, <<18, 18>>}

cdbscan_cosine_distance(a, b, dims) ==
    IF a = NULL \/ b = NULL \/ dims <= 0 THEN SENTINEL
    ELSE LET dot    == SumTo([i \in 1..dims |-> a[i] * b[i]], dims)
             norm_a == SumTo([i \in 1..dims |-> a[i] * a[i]], dims)
             norm_b == SumTo([i \in 1..dims |-> b[i] * b[i]], dims)
         IN  IF norm_a = 0 \/ norm_b = 0 THEN <<"root", 2, 1, 0>>
             ELSE IF /\ dot > 0
                     /\ dot * dot = norm_a * norm_b
                     /\ <<norm_a, norm_b>> \in RoundsBelowZero
                  THEN <<"ulp", -1, 0, 0>>
                  ELSE <<"cos", dot, norm_a, norm_b>>

(* Caller-supplied distance functions (cdbscan_dist_func_t).  The engine   *)
(* calls whatever the caller passes; three functions stand for them:       *)
(*   chebyshev  max |a_i - b_i|             a metric                       *)
(*   directed   sum max(0, b_i - a_i)       not symmetric                  *)
(*   shifted    (sum |a_i - b_i|) - 1       negative for equal vectors     *)
CustomFns == {"chebyshev", "directed", "shifted"}

RECURSIVE MaxTo(_, _)
MaxTo(f, n) == IF n <= 0 THEN 0 ELSE Max2(MaxTo(f, n - 1), f[n])

custom_dist(fn, a, b, dims) ==
    CASE fn = "chebyshev" ->
            <<"root", MaxTo([i \in 1..dims |-> Abs(a[i] - b[i])], dims), 1, 0>>
      [] fn = "directed" ->
            <<"root", SumTo([i \in 1..dims |-> Max2(0, b[i] - a[i])], dims), 1, 0>>
      [] OTHER ->
            LET m == SumTo([i \in 1..dims |-> Abs(a[i] - b[i])], dims)
            IN  IF m = 0 THEN <<"neg", 1, 0, 0>> ELSE <<"root", m - 1, 1, 0>>

calculate_distance(a, b, dims, params) ==
    CASE params.dist_type = "EUCLIDEAN" -> cdbscan_euclidean_distance(a, b, dims)
      [] params.dist_type = "MANHATTAN" -> cdbscan_manhattan_distance(a, b, dims)
      [] params.dist_type = "MINKOWSKI" ->
            cdbscan_minkowski_distance(a, b, dims, params.minkowski_p)
      [] params.dist_type = "COSINE" -> cdbscan_cosine_distance(a, b, dims)
      [] params.dist_type = "CUSTOM" /\ params.custom_dist # "NULL" ->
            custom_dist(params.custom_dist, a, b, dims)
      [] OTHER -> SENTINEL

\* dist >= 0
DistNonNeg(d) == d[1] \notin {"neg", "ulp"}

\* dist <= eps, for eps = num/den > 0
DistLeq(d, eps) ==
    LET num == eps[1]
        den == eps[2]
    IN  CASE d[1] \in {"neg", "ulp"} -> TRUE
          [] d[1] = "root" -> d[2] * Pow(den, d[3]) <= Pow(num, d[3])
          [] OTHER ->
              \* 1 - dot/S <= num/den  <=>  den*dot >= (den-num)*S, S = sqrt(x*y)
              LET L == den * d[2]
                  m == den - num
                  S2 == d[3] * d[4]
              IN  IF m <= 0
                  THEN IF L >= 0 THEN TRUE ELSE L * L <= m * m * S2
                  ELSE L >= 0 /\ L * L >= m * m * S2

(* ------------------------------ validation ----------------------------- *)
isnan(x) == x = NaNCode
isinf(x) == x = InfCode \/ x = -InfCode

\* cdbscan_validate_params without its check of min_pts
cdbscan_validate_params_any_min_pts(params) ==
    IF params.eps[1] <= 0 THEN 0
    ELSE IF params.dist_type = "MINKOWSKI" /\ params.minkowski_p <= 0 THEN 0
    ELSE IF params.dist_type = "CUSTOM" /\ params.custom_dist = "NULL" THEN 0
    ELSE 1

cdbscan_validate_params(params) ==
    IF params.eps[1] <= 0 THEN 0
    ELSE IF params.min_pts <= 0 THEN 0
    ELSE IF params.dist_type = "MINKOWSKI" /\ params.minkowski_p <= 0 THEN 0
    ELSE IF params.dist_type = "CUSTOM" /\ params.custom_dist = "NULL" THEN 0
    ELSE 1

cdbscan_validate_data(pts, num_points) ==
    IF pts = NULL \/ num_points <= 0 THEN 0
    ELSE LET dims == pts[1].dimensions
         IN  IF dims <= 0 THEN 0
             ELSE IF \E i \in 1..num_points :
                        \/ pts[i].coords = NULL
                        \/ pts[i].dimensions # dims
                        \/ \E d \in 1..dims :
                              isnan(pts[i].coords[d]) \/ isinf(pts[i].coords[d])
                  THEN 0
                  ELSE 1

(* ---------------------------- region queries --------------------------- *)
\* the scan loop of cdbscan_region_query_custom from index i on: the
\* indices written to the neighbors buffer, in the order written
RECURSIVE ScanCustom(_, _, _, _, _)
ScanCustom(pts, num_points, point_idx, params, i) ==
    IF i >= num_points THEN <<>>
    ELSE LET query_point == pts[point_idx + 1]
             dist == calculate_distance(query_point.coords, pts[i + 1].coords,
                                        query_point.dimensions, params)
             rest == ScanCustom(pts, num_points, point_idx, params, i + 1)
         IN  IF DistNonNeg(dist) /\ DistLeq(dist, params.eps)
             THEN <<i>> \o rest
             ELSE rest

cdbscan_region_query_custom(pts, num_points, point_idx, params) ==
    IF pts = NULL \/ point_idx < 0 \/ point_idx >= num_points THEN <<>>
    ELSE ScanCustom(pts, num_points, point_idx, params, 0)

RECURSIVE ScanEuclid(_, _, _, _, _)
ScanEuclid(pts, num_points, point_idx, eps, i) ==
    IF i >= num_points THEN <<>>
    ELSE LET query_point == pts[point_idx + 1]
             dist == cdbscan_euclidean_distance(query_point.coords, pts[i + 1].coords,
                                                query_point.dimensions)
             rest == ScanEuclid(pts, num_points, point_idx, eps, i + 1)
         IN  IF DistNonNeg(dist) /\ DistLeq(dist, eps)
             THEN <<i>> \o rest
             ELSE rest

\* variant: the scan loop of lines 574-581 starts at index 1
cdbscan_region_query_from_one(pts, num_points, point_idx, eps) ==
    IF pts = NULL \/ point_idx < 0 \/ point_idx >= num_points THEN <<>>
    ELSE ScanEuclid(pts, num_points, point_idx, eps, 1)

cdbscan_region_query(pts, num_points, point_idx, eps) ==
    IF pts = NULL \/ point_idx < 0 \/ point_idx >= num_points THEN <<>>
    ELSE ScanEuclid(pts, num_points, point_idx, eps, 0)

(* -------------------------------- KD-tree ------------------------------ *)
(* A node is <<point_idx, split_dim, left, right, addr>>, a missing node   *)
(* NULL; addr is the block calloc returned for the node.  A tree is        *)
(* <<root, num_points, dimensions>>, a missing tree NULL.  The index array *)
(* is a sequence; position k of the C array is element k + 1.              *)
\* variant: every node records split dimension 0
Node_split_dim_zero(point_idx, split_dim, left, right, addr) ==
    <<point_idx, 0, left, right, addr>>

\* kdtree_node_t, with the address calloc returned for it
Node(point_idx, split_dim, left, right, addr) ==
    <<point_idx, split_dim, left, right, addr>>

(* The allocator.  A block is <<kind, number>>; the heap records the       *)
(* blocks that are allocated and not yet freed (live) and the blocks that  *)
(* were passed to free while not live (bad).                               *)
Block(kind, n) == <<kind, n>>
EmptyHeap == [live |-> {}, bad |-> {}]
\* malloc / calloc returning the blocks of `blocks`
Alloc(h, blocks) == [h EXCEPT !.live = @ \cup blocks]
\* free(ptr)
Free(h, ptr) ==
    IF ptr = NULL THEN h
    ELSE IF ptr \in h.live THEN [h EXCEPT !.live = @ \ {ptr}]
    ELSE [h EXCEPT !.bad = @ \cup {ptr}]
\* free called on each pointer of ptrs in turn
RECURSIVE FreeAll(_, _)
FreeAll(h, ptrs) ==
    IF ptrs = <<>> THEN h ELSE FreeAll(Free(h, Head(ptrs)), Tail(ptrs))

Swap(indices, x, y) ==
    [indices EXCEPT ![x + 1] = indices[y + 1], ![y + 1] = indices[x + 1]]

\* the for loop of partition from i on: <<indices, store_idx>>
RECURSIVE PartitionLoop(_, _, _, _, _, _, _)
PartitionLoop(indices, pts, i, right, store_idx, pivot_val, dim) ==
    IF i >= right THEN <<indices, store_idx>>
    ELSE IF pts[indices[i + 1] + 1].coords[dim + 1] < pivot_val
         THEN PartitionLoop(Swap(indices, store_idx, i), pts, i + 1, right,
                            store_idx + 1, pivot_val, dim)
         ELSE PartitionLoop(indices, pts, i + 1, right, store_idx, pivot_val, dim)

\* variant: the pivot is not moved to its final place (lines 152-155)
partition_pivot_left_at_end(indices, pts, left, right, dim) ==
    LET pivot_idx   == (left + right) \div 2
        pivot_point == indices[pivot_idx + 1]
        pivot_val   == pts[pivot_point + 1].coords[dim + 1]
        moved       == Swap(indices, pivot_idx, right)
        looped      == PartitionLoop(moved, pts, left, right, left, pivot_val, dim)
    IN  <<looped[1], looped[2]>>

\* <<indices after the call, returned store_idx>>
partition(indices, pts, left, right, dim) ==
    LET pivot_idx   == (left + right) \div 2
        pivot_point == indices[pivot_idx + 1]
        pivot_val   == pts[pivot_point + 1].coords[dim + 1]
        moved       == Swap(indices, pivot_idx, right)
        looped      == PartitionLoop(moved, pts, left, right, left, pivot_val, dim)
    IN  <<Swap(looped[1], looped[2], right), looped[2]>>

\* right - left at each evaluation of the loop test of line 165 that finds
\* left < right, in order
RECURSIVE nth_element_widths(_, _, _, _, _, _)
nth_element_widths(indices, pts, left, right, n, dim) ==
    IF ~(left < right) THEN <<>>
    ELSE LET r == partition(indices, pts, left, right, dim)
             pivot_idx == r[2]
         IN  <<right - left>> \o
             (IF pivot_idx = n THEN <<>>
              ELSE IF pivot_idx > n
                   THEN nth_element_widths(r[1], pts, left, pivot_idx - 1, n, dim)
                   ELSE nth_element_widths(r[1], pts, pivot_idx + 1, right, n, dim))

\* the index array after the call
RECURSIVE nth_element(_, _, _, _, _, _)
nth_element(indices, pts, left, right, n, dim) ==
    IF ~(left < right) THEN indices
    ELSE LET r == partition(indices, pts, left, right, dim)
             pivot_idx == r[2]
         IN  IF pivot_idx = n THEN r[1]
             ELSE IF pivot_idx > n
                  THEN nth_element(r[1], pts, left, pivot_idx - 1, n, dim)
                  ELSE nth_element(r[1], pts, pivot_idx + 1, right, n, dim)

(* kdtree_build_recursive.  `fails` is the set of node allocations that    *)
(* fail, numbered 1, 2, ... in the order calloc is called; `made` is the   *)
(* number of calloc calls made before this one; the block of the k-th call *)
(* is Block("node", k).  Result: <<node, made'>>.                          *)
RECURSIVE kdtree_build_recursive(_, _, _, _, _, _, _)
kdtree_build_recursive(indices, num_indices, pts, depth, dimensions, fails, made) ==
    IF num_indices <= 0 THEN <<NULL, made>>
    ELSE IF (made + 1) \in fails THEN <<NULL, made + 1>>
    ELSE IF num_indices = 1
         THEN <<Node(indices[1], depth % dimensions, NULL, NULL,
                     Block("node", made + 1)), made + 1>>
    ELSE LET split_dim  == depth % dimensions
             median_idx == num_indices \div 2
             sorted     == nth_element(indices, pts, 0, num_indices - 1,
                                       median_idx, split_dim)
             l == kdtree_build_recursive(SubSeq(sorted, 1, median_idx), median_idx,
                                         pts, depth + 1, dimensions, fails, made + 1)
             r == kdtree_build_recursive(SubSeq(sorted, median_idx + 2, num_indices),
                                         num_indices - median_idx - 1,
                                         pts, depth + 1, dimensions, fails, l[2])
         IN  <<Node(sorted[median_idx + 1], split_dim, l[1], r[1],
                    Block("node", made + 1)), r[2]>>

\* lines 234-236: the index array <<0, 1, ..., n-1>>
RECURSIVE Iota(_)
Iota(n) == IF n <= 0 THEN <<>> ELSE Append(Iota(n - 1), n - 1)

\* tree_ok, indices_ok: whether the two allocations of kdtree_build succeed
kdtree_build(pts, num_points, tree_ok, indices_ok, fails) ==
    IF pts = NULL \/ num_points <= 0 THEN NULL
    ELSE IF ~tree_ok THEN NULL
    ELSE IF ~indices_ok THEN NULL
    ELSE LET indices == Iota(num_points)
             dimensions == pts[1].dimensions
         IN  <<kdtree_build_recursive(indices, num_points, pts, 0, dimensions,
                                      fails, 0)[1],
               num_points, dimensions>>

\* the heap after kdtree_build: its calloc and malloc calls that succeed and
\* its calls of free (lines 227-229 and 244)
kdtree_build_heap(h, pts, num_points, tree_ok, indices_ok, fails) ==
    IF pts = NULL \/ num_points <= 0 THEN h
    ELSE IF ~tree_ok THEN h
    ELSE IF ~indices_ok THEN Free(Alloc(h, {Block("tree", 0)}), Block("tree", 0))
    ELSE LET made == kdtree_build_recursive(Iota(num_points), num_points, pts, 0,
                                            pts[1].dimensions, fails, 0)[2]
             nodes == {Block("node", k) : k \in (1..made) \ fails}
         IN  Free(Alloc(h, {Block("tree", 0), Block("indices", 0)} \cup nodes),
                  Block("indices", 0))

\* the pointers kdtree_free_recursive passes to free, in order
RECURSIVE kdtree_free_recursive(_)
kdtree_free_recursive(node) ==
    IF node = NULL THEN <<>>
    ELSE kdtree_free_recursive(node[3]) \o kdtree_free_recursive(node[4]) \o <<node[5]>>

\* variant: only the header is freed
kdtree_free_header_only(tree) ==
    IF tree = NULL THEN <<>> ELSE <<Block("tree", 0)>>

\* the pointers kdtree_free passes to free, in order
kdtree_free(tree) ==
    IF tree = NULL THEN <<>>
    ELSE kdtree_free_recursive(tree[1]) \o <<Block("tree", 0)>>

\* kdtree_range_query_recursive pruning the far subtree with < in place of <=
RECURSIVE kdtree_range_query_recursive_strict(_, _, _, _, _, _)
kdtree_range_query_recursive_strict(node, query_point, eps, pts, neighbors, dimensions) ==
    IF node = NULL THEN neighbors
    ELSE LET node_point == pts[node[1] + 1]
             dist == cdbscan_euclidean_distance(query_point.coords,
                                                node_point.coords, dimensions)
             found == IF DistLeq(dist, eps) THEN Append(neighbors, node[1])
                      ELSE neighbors
             split_dim == node[2]
             diff == query_point.coords[split_dim + 1] - node_point.coords[split_dim + 1]
             first_child  == IF diff < 0 THEN node[3] ELSE node[4]
             second_child == IF diff < 0 THEN node[4] ELSE node[3]
             after_first == kdtree_range_query_recursive_strict(first_child, query_point,
                                                                eps, pts, found, dimensions)
         IN  IF Abs(diff) * eps[2] < eps[1]
             THEN kdtree_range_query_recursive_strict(second_child, query_point, eps,
                                                      pts, after_first, dimensions)
             ELSE after_first

\* the neighbors buffer (as the sequence of entries written) after the call
RECURSIVE kdtree_range_query_recursive(_, _, _, _, _, _)
kdtree_range_query_recursive(node, query_point, eps, pts, neighbors, dimensions) ==
    IF node = NULL THEN neighbors
    ELSE LET node_point == pts[node[1] + 1]
             dist == cdbscan_euclidean_distance(query_point.coords,
                                                node_point.coords, dimensions)
             found == IF DistLeq(dist, eps) THEN Append(neighbors, node[1])
                      ELSE neighbors
             split_dim == node[2]
             diff == query_point.coords[split_dim + 1] - node_point.coords[split_dim + 1]
             first_child  == IF diff < 0 THEN node[3] ELSE node[4]
             second_child == IF diff < 0 THEN node[4] ELSE node[3]
             after_first == kdtree_range_query_recursive(first_child, query_point, eps,
                                                         pts, found, dimensions)
         IN  IF Abs(diff) * eps[2] <= eps[1]
             THEN kdtree_range_query_recursive(second_child, query_point, eps,
                                               pts, after_first, dimensions)
             ELSE after_first

\* qsort(neighbors, count, sizeof(int), compare_ints): ascending order
RECURSIVE InsertSorted(_, _)
InsertSorted(s, x) ==
    IF s = <<>> THEN <<x>>
    ELSE IF x - Head(s) <= 0 THEN <<x>> \o s
    ELSE <<Head(s)>> \o InsertSorted(Tail(s), x)

RECURSIVE qsort_ints(_)
qsort_ints(s) == IF s = <<>> THEN <<>> ELSE InsertSorted(qsort_ints(Tail(s)), Head(s))

\* variant: the entries are left in the order the traversal wrote them
kdtree_range_query_unsorted(tree, pts, query_idx, eps) ==
    IF tree = NULL THEN <<>>
    ELSE IF tree[1] = NULL THEN <<>>
    ELSE kdtree_range_query_recursive(tree[1], pts[query_idx + 1], eps,
                                      pts, <<>>, tree[3])

\* the neighbors buffer after the call, as the sequence of its count entries
kdtree_range_query(tree, pts, query_idx, eps) ==
    IF tree = NULL THEN <<>>
    ELSE IF tree[1] = NULL THEN <<>>
    ELSE qsort_ints(kdtree_range_query_recursive(tree[1], pts[query_idx + 1], eps,
                                                 pts, <<>>, tree[3]))

(* --------------------------- radius estimation ------------------------- *)
(* The values sorted here are results of cdbscan_euclidean_distance: the   *)
(* sentinel -1.0 or a square root.                                         *)
\* *a - *b < 0
DoubleLess(a, b) ==
    CASE a[1] = "neg" /\ b[1] = "neg" -> a[2] > b[2]
      [] a[1] = "neg" -> TRUE
      [] b[1] = "neg" -> FALSE
      [] OTHER -> a[2] < b[2]

compare_doubles(a, b) ==
    (IF DoubleLess(b, a) THEN 1 ELSE 0) - (IF DoubleLess(a, b) THEN 1 ELSE 0)

\* qsort(temp_dists, count, sizeof(double), compare_doubles): ascending order
RECURSIVE InsertDouble(_, _)
InsertDouble(s, x) ==
    IF s = <<>> THEN <<x>>
    ELSE IF compare_doubles(x, Head(s)) <= 0 THEN <<x>> \o s
    ELSE <<Head(s)>> \o InsertDouble(Tail(s), x)

RECURSIVE qsort_doubles(_)
qsort_doubles(s) ==
    IF s = <<>> THEN <<>> ELSE InsertDouble(qsort_doubles(Tail(s)), Head(s))

\* variant: the inner loop without the test i != j of line 478
RECURSIVE DistancesToOthers_with_self(_, _, _, _)
DistancesToOthers_with_self(pts, num_points, i, j) ==
    IF j >= num_points THEN <<>>
    ELSE <<cdbscan_euclidean_distance(pts[i + 1].coords, pts[j + 1].coords,
                                      pts[i + 1].dimensions)>>
         \o DistancesToOthers_with_self(pts, num_points, i, j + 1)

\* the inner loop of lines 476-485 from j on: the values written to
\* temp_dists[0 .. dist_count - 1]
RECURSIVE DistancesToOthers(_, _, _, _)
DistancesToOthers(pts, num_points, i, j) ==
    IF j >= num_points THEN <<>>
    ELSE LET rest == DistancesToOthers(pts, num_points, i, j + 1)
         IN  IF i # j
             THEN <<cdbscan_euclidean_distance(pts[i + 1].coords, pts[j + 1].coords,
                                               pts[i + 1].dimensions)>> \o rest
             ELSE rest

\* the outer loop of lines 473-492 from i on: the values written to
\* result->distances[i ..] and the positions of temp_dists it touches
RECURSIVE KDistances(_, _, _, _)
KDistances(pts, num_points, k, i) ==
    IF i >= num_points THEN [distances |-> <<>>, touched |-> {}]
    ELSE LET temp_dists == qsort_doubles(DistancesToOthers(pts, num_points, i, 0))
             rest == KDistances(pts, num_points, k, i + 1)
         IN  [distances |-> <<temp_dists[k]>> \o rest.distances,
              touched |-> (0 .. Len(temp_dists) - 1) \cup {k - 1} \cup rest.touched]

\* (int)(0.95 * num_points); the product is not within rounding of an
\* integer unless num_points is a multiple of 20
ElbowIdx(num_points) == (95 * num_points) \div 100

\* The result is NULL or a record: distances, k and suggested_eps are the
\* fields of cdbscan_kdist_result_t, touched the positions of the two
\* num_points-element arrays the call reads or writes.
cdbscan_estimate_eps(pts, num_points, k) ==
    IF pts = NULL \/ num_points <= 0 \/ k <= 0 \/ k >= num_points THEN NULL
    ELSE LET per_point == KDistances(pts, num_points, k, 0)
             temp_dists == qsort_doubles(per_point.distances)
             elbow_idx == ElbowIdx(num_points)
         IN  [distances |-> per_point.distances,
              k |-> k,
              suggested_eps |-> temp_dists[elbow_idx + 1],
              touched |-> per_point.touched \cup (0 .. num_points - 1)
                          \cup {elbow_idx}]

(* ------------------------------- the state ----------------------------- *)
VARIABLES
    points,       \* the caller's point array: records coords, dimensions, cluster_id, index
    num_points,   \* the count the caller passes
    arg,          \* the caller's cdbscan_params_t (use_kdtree is set per call)
    pc,           \* position of the call: idle, validate, reset, alloc, build, scan, expand
    params,       \* cdbscan_cluster's by-value copy of the parameters
    neighbors,    \* contents of the neighbors buffer written by the last query
    seeds,        \* the seed working list seeds[0 .. seed_size-1]
    current_seed, \* cursor of the seed loop
    tree,         \* the kdtree_t of this call, or NULL
    cluster_id,   \* the cluster counter of cdbscan_cluster
    i,            \* loop index of cdbscan_cluster
    ret,          \* value returned by the last call that returned
    heap,         \* the allocator: blocks allocated and not yet freed, bad frees
    run,          \* number of calls the caller has started
    before,       \* the point array as it was when the current call was entered
    mode,         \* how the current call queries: brute, kdtree, fallback, partial
    nfail,        \* allocations that have failed so far
    prev,         \* outcome of the call before the current one
    call,         \* the last call of another public function: its name and arguments
    out,          \* what that call returned
    other         \* a second invocation of cdbscan_cluster, while it is not running

vars == <<points, num_points, arg, pc, params, neighbors, seeds, current_seed,
          tree, cluster_id, i, ret, heap, run, before, mode, nfail, prev, call, out,
          other>>

locals == <<neighbors, seeds, current_seed, tree, cluster_id, i>>
inputs == <<num_points, arg>>
ghosts == <<run, before, mode, nfail, prev>>
\* what no step of cdbscan_cluster touches
api == <<call, out, other>>

(* ---------------------------- the input space -------------------------- *)
Grid == [1..Dims -> 0..MaxCoord]
DataSets == UNION {[1..n -> Grid] : n \in 1..MaxPts}

\* points as cdbscan_create_points leaves them
FreshPoints(ds) ==
    [k \in 1..Len(ds) |-> [coords |-> ds[k], dimensions |-> Len(ds[k]),
                           cluster_id |-> CDBSCAN_UNCLASSIFIED, index |-> k - 1]]

\* points whose cluster_id and index hold values of some earlier use
StalePoints(ds) ==
    [k \in 1..Len(ds) |-> [coords |-> ds[k], dimensions |-> Len(ds[k]),
                           cluster_id |-> k, index |-> 0]]

EpsChoices == {<<1, 2>>, <<1, 1>>, <<3, 2>>}
MinPtsChoices == 1..MaxPts

Params(eps, min_pts, dist_type, p, fn) ==
    [eps |-> eps, min_pts |-> min_pts, dist_type |-> dist_type,
     minkowski_p |-> p, custom_dist |-> fn, use_kdtree |-> 0]

Metrics ==
    {<<"EUCLIDEAN", 0, "NULL">>, <<"MANHATTAN", 0, "NULL">>,
     <<"MINKOWSKI", 3, "NULL">>, <<"COSINE", 0, "NULL">>}
    \cup {<<"CUSTOM", 0, fn>> : fn \in CustomFns}

ValidParams ==
    {Params(e, m, t[1], t[2], t[3]) : e \in EpsChoices, m \in MinPtsChoices, t \in Metrics}

\* parameters cdbscan_validate_params rejects
BadParams ==
    {Params(e, 2, "EUCLIDEAN", 0, "NULL") : e \in {<<0, 1>>, <<-1, 2>>}}
    \cup {Params(<<1, 1>>, m, "EUCLIDEAN", 0, "NULL") : m \in {0, -1}}
    \cup {Params(<<1, 1>>, 2, "MINKOWSKI", p, "NULL") : p \in {0, -1}}
    \cup {Params(<<1, 1>>, 2, "CUSTOM", 0, "NULL")}

\* point arrays cdbscan_validate_data rejects: one defect put into a valid array
BadPoints(pts) ==
    {[pts EXCEPT ![k].coords = NULL] : k \in 1..Len(pts)}
    \cup {[pts EXCEPT ![1].dimensions = d] : d \in {0, -1}}
    \cup {[pts EXCEPT ![k].dimensions = Dims + 1] : k \in 2..Len(pts)}
    \cup {[pts EXCEPT ![k].coords[d] = x] :
             k \in 1..Len(pts), d \in 1..Dims, x \in {NaNCode, InfCode, -InfCode}}

InitLocals ==
    /\ pc = "idle"
    /\ params = arg
    /\ neighbors = <<>>
    /\ seeds = <<>>
    /\ current_seed = 0
    /\ tree = NULL
    /\ cluster_id = 0
    /\ i = 0
    /\ ret = 0
    /\ heap = EmptyHeap
    /\ run = 0
    /\ before = points
    /\ mode = "none"
    /\ nfail = 0
    /\ prev = [ret |-> 0, points |-> <<>>, mode |-> "none", params |-> arg]
    /\ call = [fn |-> "none"]
    /\ out = 0

\* no second invocation
Alone == other = [id |-> 0]

\* the point (x, 0, ..., 0)
OnAxis(x) == [d \in 1..Dims |-> IF d = 1 THEN x ELSE 0]

\* two dense groups on a line that share the border point at x = 2
BridgeData == <<OnAxis(0), OnAxis(0), OnAxis(1), OnAxis(2), OnAxis(3), OnAxis(4), OnAxis(4)>>
\* the same, the second group led by its far end: the point at x = 3 is a
\* seed of the second cluster, not its origin
HookData ==
    <<OnAxis(0), OnAxis(0), OnAxis(1), OnAxis(2), OnAxis(4), OnAxis(4), OnAxis(4), OnAxis(3)>>
\* a chain of points one eps apart
ChainData == <<OnAxis(0), OnAxis(1), OnAxis(2), OnAxis(3)>>
\* a noise point at x = 0 that only a seed of the cluster, the point at
\* x = 1, reaches
SpurData == <<OnAxis(0), OnAxis(2), OnAxis(2), OnAxis(1), OnAxis(3)>>
LineData == {BridgeData, HookData, ChainData, SpurData}
BridgeParams ==
    {Params(<<1, 1>>, m, t[1], t[2], t[3]) :
        m \in {2, 4}, t \in {<<"EUCLIDEAN", 0, "NULL">>, <<"MANHATTAN", 0, "NULL">>}}

\* three directions in the plane, the outer two 22.6 degrees apart: the
\* cosine distance is 0.0194 from the middle one to either of the others and
\* 0.0769 between the outer two
FanData ==
    {<<<<3, 3>>, <<2, 3>>, <<3, 2>>>>, <<<<2, 3>>, <<3, 3>>, <<3, 2>>>>,
     <<<<3, 3>>, <<2, 3>>, <<3, 2>>, <<2, 3>>, <<3, 3>>>>}
FanParams == {Params(<<1, 20>>, m, "COSINE", 0, "NULL") : m \in 2..3}

\* the corners of a square of side 0.2, in units of 0.2, and its radii 0.25
\* and 0.3 in the same units
SquareData == <<<<0, 0>>, <<1, 0>>, <<1, 1>>, <<0, 1>>>>
SquareParams == {Params(e, 4, "EUCLIDEAN", 0, "NULL") : e \in {<<5, 4>>, <<3, 2>>}}

\* one point 10 or more away from the others
IsolatedData ==
    {<<OnAxis(10), OnAxis(0)>>, <<OnAxis(0), OnAxis(10), OnAxis(0)>>,
     <<OnAxis(0), OnAxis(1), OnAxis(11)>>, <<OnAxis(0), OnAxis(10), OnAxis(10)>>}

\* valid data, valid parameters
InitValid ==
    \/ /\ \E ds \in DataSets : points = FreshPoints(ds)
       /\ num_points = Len(points)
       /\ arg \in ValidParams
    \/ /\ \E ds \in FanData : points = FreshPoints(ds)
       /\ num_points = Len(points)
       /\ arg \in FanParams
    \/ /\ \E ds \in LineData : points = FreshPoints(ds)
       /\ num_points = Len(points)
       /\ arg \in BridgeParams
    \/ /\ points = FreshPoints(SquareData)
       /\ num_points = Len(points)
       /\ arg \in SquareParams
    \/ /\ \E ds \in IsolatedData : points = FreshPoints(ds)
       /\ num_points = Len(points)
       /\ arg \in ValidParams

\* one defect in the parameters, the count or the data
InitInvalid ==
    \E ds \in DataSets :
        \/ /\ points = StalePoints(ds)
           /\ num_points = Len(points)
           /\ arg \in BadParams
        \/ /\ points = StalePoints(ds)
           /\ num_points \in {0, -1}
           /\ arg = Params(<<1, 1>>, 2, "EUCLIDEAN", 0, "NULL")
        \/ /\ points = NULL
           /\ num_points = Len(ds)
           /\ arg = Params(<<1, 1>>, 2, "EUCLIDEAN", 0, "NULL")
        \/ /\ points \in BadPoints(StalePoints(ds))
           /\ num_points = Len(points)
           /\ arg = Params(<<1, 1>>, 2, "EUCLIDEAN", 0, "NULL")

Init == (InitValid \/ InitInvalid) /\ InitLocals /\ Alone

(* ------------------------------- helpers ------------------------------- *)
SetLabel(pts, idx, label) == [pts EXCEPT ![idx + 1].cluster_id = label]

\* the neighborhood query cdbscan_cluster and the expansion routines make
Query(t, pts, n, idx, prm) ==
    IF t # NULL
    THEN kdtree_range_query(t, pts, idx, prm.eps)
    ELSE cdbscan_region_query_custom(pts, n, idx, prm)

RECURSIVE NodesOf(_)
NodesOf(node) ==
    IF node = NULL THEN {} ELSE {node[1]} \cup NodesOf(node[3]) \cup NodesOf(node[4])

Outcome == [ret |-> ret, points |-> points, mode |-> mode, params |-> params]

(* --------------------------- cdbscan_cluster --------------------------- *)
\* the caller calls cdbscan_cluster(points, num_points, params)
Enter(kd) ==
    /\ pc = "idle"
    /\ run < MaxRuns
    /\ pc' = "validate"
    /\ run' = run + 1
    /\ params' = [arg EXCEPT !.use_kdtree = kd]
    /\ before' = points
    /\ prev' = Outcome
    /\ mode' = "none"
    /\ neighbors' = <<>>
    /\ seeds' = <<>>
    /\ current_seed' = 0
    /\ tree' = NULL
    /\ cluster_id' = 0
    /\ i' = 0
    /\ UNCHANGED <<api, points, inputs, ret, heap, nfail>>

Valid == cdbscan_validate_params(params) # 0 /\ cdbscan_validate_data(points, num_points) # 0

\* lines 630-633, a validation that fails
ValidateFails ==
    /\ pc = "validate"
    /\ ~Valid
    /\ ret' = -1
    /\ pc' = "idle"
    /\ UNCHANGED <<api, points, inputs, params, locals, heap, ghosts>>

\* lines 630-633, a validation that passes
ValidatePasses ==
    /\ pc = "validate"
    /\ Valid
    /\ pc' = "reset"
    /\ UNCHANGED <<api, points, inputs, params, locals, ret, heap, ghosts>>

\* the loop of lines 636-639 without the assignment to cluster_id
ResetPoints_keep_cluster_id(pts, n) ==
    [k \in 1..Len(pts) |->
        IF k <= n THEN [pts[k] EXCEPT !.index = k - 1] ELSE pts[k]]

\* lines 636-639
ResetPoints(pts, n) ==
    [k \in 1..Len(pts) |->
        IF k <= n THEN [pts[k] EXCEPT !.cluster_id = CDBSCAN_UNCLASSIFIED, !.index = k - 1]
        ELSE pts[k]]

ResetLabels ==
    /\ pc = "reset"
    /\ points' = ResetPoints(points, num_points)
    /\ pc' = "alloc"
    /\ UNCHANGED <<api, inputs, params, locals, ret, heap, ghosts>>

\* lines 642-648: the two working buffers; either malloc may fail
AllocBuffers ==
    /\ pc = "alloc"
    /\ \E neighbors_ok, seeds_ok \in BOOLEAN :
          LET failed == (IF neighbors_ok THEN 0 ELSE 1) + (IF seeds_ok THEN 0 ELSE 1)
              neighbors_ptr == IF neighbors_ok THEN Block("neighbors", 0) ELSE NULL
              seeds_ptr == IF seeds_ok THEN Block("seeds", 0) ELSE NULL
              got == Alloc(heap, {neighbors_ptr, seeds_ptr} \ {NULL})
          IN  /\ nfail + failed <= MaxAllocFailures
              /\ nfail' = nfail + failed
              /\ IF neighbors_ok /\ seeds_ok
                 THEN /\ heap' = got
                      /\ pc' = "build"
                      /\ ret' = ret
                 ELSE /\ heap' = FreeAll(got, <<neighbors_ptr, seeds_ptr>>)
                      /\ pc' = "idle"
                      /\ ret' = -1
    /\ UNCHANGED <<api, points, inputs, params, locals, run, before, mode, prev>>

\* the ways the allocations of one index build may fail, with at most `left`
\* failures: <<tree_ok, indices_ok, failing node allocations>>
BuildFailures(n, left) ==
    {<<TRUE, TRUE, F>> : F \in {F \in SUBSET (1..n) : Cardinality(F) <= left}}
    \cup (IF left >= 1 THEN {<<FALSE, TRUE, {}>>, <<TRUE, FALSE, {}>>} ELSE {})

\* variant: the index is built for use_kdtree with any metric
BuildTree_any_metric ==
    /\ pc = "build"
    /\ IF params.use_kdtree # 0
       THEN \E f \in BuildFailures(num_points, MaxAllocFailures - nfail) :
               LET t == kdtree_build(points, num_points, f[1], f[2], f[3])
               IN  /\ tree' = t
                   /\ nfail' = nfail + (IF f[1] /\ f[2] THEN Cardinality(f[3]) ELSE 1)
                   /\ params' = IF t = NULL THEN [params EXCEPT !.use_kdtree = 0]
                                ELSE params
                   /\ mode' = IF t = NULL THEN "fallback"
                              ELSE IF Cardinality(NodesOf(t[1])) < num_points
                                   THEN "partial"
                                   ELSE "kdtree"
                   /\ heap' = kdtree_build_heap(heap, points, num_points, f[1], f[2], f[3])
       ELSE /\ tree' = NULL
            /\ params' = params
            /\ mode' = "brute"
            /\ heap' = heap
            /\ nfail' = nfail
    /\ cluster_id' = 0
    /\ i' = 0
    /\ pc' = "scan"
    /\ UNCHANGED <<api, points, inputs, neighbors, seeds, current_seed, ret, run, before, prev>>

\* lines 651-660: the index is built for use_kdtree with the Euclidean metric
BuildTree ==
    /\ pc = "build"
    /\ IF params.use_kdtree # 0 /\ params.dist_type = "EUCLIDEAN"
       THEN \E f \in BuildFailures(num_points, MaxAllocFailures - nfail) :
               LET t == kdtree_build(points, num_points, f[1], f[2], f[3])
               IN  /\ tree' = t
                   /\ nfail' = nfail + (IF f[1] /\ f[2] THEN Cardinality(f[3]) ELSE 1)
                   /\ params' = IF t = NULL THEN [params EXCEPT !.use_kdtree = 0]
                                ELSE params
                   /\ mode' = IF t = NULL THEN "fallback"
                              ELSE IF Cardinality(NodesOf(t[1])) < num_points
                                   THEN "partial"
                                   ELSE "kdtree"
                   /\ heap' = kdtree_build_heap(heap, points, num_points, f[1], f[2], f[3])
       ELSE /\ tree' = NULL
            /\ params' = params
            /\ mode' = "brute"
            /\ heap' = heap
            /\ nfail' = nfail
    /\ cluster_id' = 0
    /\ i' = 0
    /\ pc' = "scan"
    /\ UNCHANGED <<api, points, inputs, neighbors, seeds, current_seed, ret, run, before, prev>>

\* lines 664-666: the point was classified by an earlier expansion
SkipClassified ==
    /\ pc = "scan"
    /\ i < num_points
    /\ points[i + 1].cluster_id # CDBSCAN_UNCLASSIFIED
    /\ i' = i + 1
    /\ UNCHANGED <<api, points, inputs, pc, params, neighbors, seeds, current_seed, tree,
                   cluster_id, ret, heap, ghosts>>

\* lines 668-681: fewer than min_pts neighbors
\* variant: the assignment of line 680 is left out
MarkNoise_leaves_unclassified ==
    /\ pc = "scan"
    /\ i < num_points
    /\ points[i + 1].cluster_id = CDBSCAN_UNCLASSIFIED
    /\ LET found == Query(tree, points, num_points, i, params)
       IN  /\ Len(found) < params.min_pts
           /\ neighbors' = found
    /\ i' = i + 1
    /\ UNCHANGED <<api, points, inputs, pc, params, seeds, current_seed, tree,
                   cluster_id, ret, heap, ghosts>>

MarkNoise ==
    /\ pc = "scan"
    /\ i < num_points
    /\ points[i + 1].cluster_id = CDBSCAN_UNCLASSIFIED
    /\ LET found == Query(tree, points, num_points, i, params)
       IN  /\ Len(found) < params.min_pts
           /\ neighbors' = found
           /\ points' = SetLabel(points, i, CDBSCAN_NOISE)
    /\ i' = i + 1
    /\ UNCHANGED <<api, inputs, pc, params, seeds, current_seed, tree, cluster_id, ret,
                   heap, ghosts>>

\* lines 729-731 / 796-798: every seed gets the cluster id
RECURSIVE LabelSeeds(_, _, _, _)
LabelSeeds(pts, sds, k, cid) ==
    IF k >= Len(sds) THEN pts
    ELSE LabelSeeds(SetLabel(pts, sds[k + 1], cid), sds, k + 1, cid)

\* lines 734-739 / 801-806: the first entry equal to point_idx is replaced by
\* the last entry and the list shrinks by one
RECURSIVE RemoveCore(_, _, _)
RemoveCore(sds, point_idx, k) ==
    IF k >= Len(sds) THEN sds
    ELSE IF sds[k + 1] = point_idx
         THEN SubSeq([sds EXCEPT ![k + 1] = sds[Len(sds)]], 1, Len(sds) - 1)
         ELSE RemoveCore(sds, point_idx, k + 1)

\* variant: the query of lines 719-720 / 787-788 finds nothing, as it may
\* with a metric that answers differently the second time
StartCluster_second_query_empty ==
    /\ pc = "scan"
    /\ i < num_points
    /\ points[i + 1].cluster_id = CDBSCAN_UNCLASSIFIED
    /\ LET found == Query(tree, points, num_points, i, params)
           initial == <<>>
       IN  /\ Len(found) >= params.min_pts
           /\ neighbors' = found
           /\ IF Len(initial) < params.min_pts
              THEN /\ points' = SetLabel(points, i, CDBSCAN_NOISE)
                   /\ seeds' = initial
                   /\ i' = i + 1
                   /\ pc' = "scan"
              ELSE /\ points' = LabelSeeds(points, initial, 0, cluster_id)
                   /\ seeds' = RemoveCore(initial, i, 0)
                   /\ i' = i
                   /\ pc' = "expand"
    /\ current_seed' = 0
    /\ UNCHANGED <<api, inputs, params, tree, cluster_id, ret, heap, ghosts>>

\* lines 682-698 with lines 719-739 / 787-806: a core point starts a cluster
StartCluster ==
    /\ pc = "scan"
    /\ i < num_points
    /\ points[i + 1].cluster_id = CDBSCAN_UNCLASSIFIED
    /\ LET found == Query(tree, points, num_points, i, params)
           initial == Query(tree, points, num_points, i, params)
       IN  /\ Len(found) >= params.min_pts
           /\ neighbors' = found
           /\ IF Len(initial) < params.min_pts
              THEN /\ points' = SetLabel(points, i, CDBSCAN_NOISE)
                   /\ seeds' = initial
                   /\ i' = i + 1
                   /\ pc' = "scan"
              ELSE /\ points' = LabelSeeds(points, initial, 0, cluster_id)
                   /\ seeds' = RemoveCore(initial, i, 0)
                   /\ i' = i
                   /\ pc' = "expand"
    /\ current_seed' = 0
    /\ UNCHANGED <<api, inputs, params, tree, cluster_id, ret, heap, ghosts>>

\* the neighbor loop without the append of lines 762-763 / 829-830
RECURSIVE ClaimNeighbors_no_append(_, _, _, _, _)
ClaimNeighbors_no_append(pts, sds, nbrs, k, cid) ==
    IF k >= Len(nbrs) THEN <<pts, sds>>
    ELSE LET neighbor_idx == nbrs[k + 1]
             label == pts[neighbor_idx + 1].cluster_id
         IN  IF label = CDBSCAN_UNCLASSIFIED \/ label = CDBSCAN_NOISE
             THEN ClaimNeighbors_no_append(SetLabel(pts, neighbor_idx, cid), sds,
                                           nbrs, k + 1, cid)
             ELSE ClaimNeighbors_no_append(pts, sds, nbrs, k + 1, cid)

\* the neighbor loop without the test of lines 755-758 / 822-825: every neighbor is
\* given the cluster id
RECURSIVE ClaimNeighbors_any_label(_, _, _, _, _)
ClaimNeighbors_any_label(pts, sds, nbrs, k, cid) ==
    IF k >= Len(nbrs) THEN <<pts, sds>>
    ELSE LET neighbor_idx == nbrs[k + 1]
             label == pts[neighbor_idx + 1].cluster_id
         IN  ClaimNeighbors_any_label(SetLabel(pts, neighbor_idx, cid),
                                      IF label = CDBSCAN_UNCLASSIFIED
                                      THEN Append(sds, neighbor_idx) ELSE sds,
                                      nbrs, k + 1, cid)

\* the neighbor loop without the test of lines 759-760 / 826-827: a neighbor
\* labelled noise is appended as well
RECURSIVE ClaimNeighbors_appends_noise(_, _, _, _, _)
ClaimNeighbors_appends_noise(pts, sds, nbrs, k, cid) ==
    IF k >= Len(nbrs) THEN <<pts, sds>>
    ELSE LET neighbor_idx == nbrs[k + 1]
             label == pts[neighbor_idx + 1].cluster_id
         IN  IF label = CDBSCAN_UNCLASSIFIED \/ label = CDBSCAN_NOISE
             THEN ClaimNeighbors_appends_noise(SetLabel(pts, neighbor_idx, cid),
                                               Append(sds, neighbor_idx),
                                               nbrs, k + 1, cid)
             ELSE ClaimNeighbors_appends_noise(pts, sds, nbrs, k + 1, cid)

\* lines 752-770 / 819-837 from neighbor k on: <<points, seeds>>
RECURSIVE ClaimNeighbors(_, _, _, _, _)
ClaimNeighbors(pts, sds, nbrs, k, cid) ==
    IF k >= Len(nbrs) THEN <<pts, sds>>
    ELSE LET neighbor_idx == nbrs[k + 1]
             label == pts[neighbor_idx + 1].cluster_id
         IN  IF label = CDBSCAN_UNCLASSIFIED \/ label = CDBSCAN_NOISE
             THEN ClaimNeighbors(SetLabel(pts, neighbor_idx, cid),
                                 IF label = CDBSCAN_UNCLASSIFIED
                                 THEN Append(sds, neighbor_idx) ELSE sds,
                                 nbrs, k + 1, cid)
             ELSE ClaimNeighbors(pts, sds, nbrs, k + 1, cid)

\* variant: the cursor is not advanced (line 773 / 840 left out)
ProcessSeed_cursor_stays ==
    /\ pc = "expand"
    /\ current_seed < Len(seeds)
    /\ LET current_point == seeds[current_seed + 1]
           found == Query(tree, points, num_points, current_point, params)
           claimed == IF Len(found) >= params.min_pts
                      THEN ClaimNeighbors(points, seeds, found, 0, cluster_id)
                      ELSE <<points, seeds>>
       IN  /\ neighbors' = found
           /\ points' = claimed[1]
           /\ seeds' = claimed[2]
    /\ current_seed' = current_seed
    /\ UNCHANGED <<api, inputs, pc, params, tree, cluster_id, i, ret, heap, ghosts>>

\* lines 743-774 / 810-841: one pass of the seed loop
ProcessSeed ==
    /\ pc = "expand"
    /\ current_seed < Len(seeds)
    /\ LET current_point == seeds[current_seed + 1]
           found == Query(tree, points, num_points, current_point, params)
           claimed == IF Len(found) >= params.min_pts
                      THEN ClaimNeighbors(points, seeds, found, 0, cluster_id)
                      ELSE <<points, seeds>>
       IN  /\ neighbors' = found
           /\ points' = claimed[1]
           /\ seeds' = claimed[2]
    /\ current_seed' = current_seed + 1
    /\ UNCHANGED <<api, inputs, pc, params, tree, cluster_id, i, ret, heap, ghosts>>

\* lines 776 / 843 and 689 / 696: the expansion returns 1, the counter advances
FinishCluster ==
    /\ pc = "expand"
    /\ current_seed >= Len(seeds)
    /\ cluster_id' = cluster_id + 1
    /\ i' = i + 1
    /\ pc' = "scan"
    /\ UNCHANGED <<api, points, inputs, params, neighbors, seeds, current_seed, tree, ret,
                   heap, ghosts>>

\* lines 702-709
Return ==
    /\ pc = "scan"
    /\ i >= num_points
    /\ heap' = FreeAll(heap, (IF tree # NULL THEN kdtree_free(tree) ELSE <<>>)
                             \o <<Block("neighbors", 0), Block("seeds", 0)>>)
    /\ ret' = cluster_id
    /\ pc' = "idle"
    /\ UNCHANGED <<api, points, inputs, params, locals, ghosts>>

Next ==
    \/ \E kd \in {0, 1} : Enter(kd)
    \/ ValidateFails
    \/ ValidatePasses
    \/ ResetLabels
    \/ AllocBuffers
    \/ BuildTree
    \/ SkipClassified
    \/ MarkNoise
    \/ StartCluster
    \/ ProcessSeed
    \/ FinishCluster
    \/ Return

Spec == Init /\ [][Next]_vars

(* ------------------- two invocations running concurrently ------------- *)
(* cdbscan_cluster and the functions it calls declare no static or global  *)
(* variable: an invocation owns its parameters (passed by value, line      *)
(* 627), its automatic variables and the blocks it allocates, and works on *)
(* the caller's point array.  A second invocation, on its own array, is    *)
(* held in `other` while the first takes steps; Switch hands the processor *)
(* to it.                                                                  *)
Context ==
    [points |-> points, num_points |-> num_points, arg |-> arg, pc |-> pc,
     params |-> params, neighbors |-> neighbors, seeds |-> seeds,
     current_seed |-> current_seed, tree |-> tree, cluster_id |-> cluster_id,
     i |-> i, ret |-> ret, heap |-> heap, run |-> run, before |-> before,
     mode |-> mode, nfail |-> nfail, prev |-> prev]

\* an invocation about to be made on the array pts with the parameters a,
\* all of whose allocations will succeed
FirstContext(pts, a) ==
    [points |-> pts, num_points |-> Len(pts), arg |-> a, pc |-> "idle",
     params |-> a, neighbors |-> <<>>, seeds |-> <<>>, current_seed |-> 0,
     tree |-> NULL, cluster_id |-> 0, i |-> 0, ret |-> 0, heap |-> EmptyHeap,
     run |-> 0, before |-> pts, mode |-> "none", nfail |-> MaxAllocFailures,
     prev |-> [ret |-> 0, points |-> <<>>, mode |-> "none", params |-> a]]

\* the calls made concurrently: a chain, two groups with a noise point
\* between them, a fan under the cosine metric, and a call with invalid
\* parameters
ConcurrentCalls ==
    {<<FreshPoints(ChainData), Params(<<1, 1>>, 2, "EUCLIDEAN", 0, "NULL")>>,
     <<FreshPoints(<<OnAxis(0), OnAxis(0), OnAxis(5), OnAxis(10), OnAxis(10)>>),
       Params(<<1, 2>>, 2, "MANHATTAN", 0, "NULL")>>,
     <<FreshPoints(<<<<3, 3>>, <<2, 3>>, <<3, 2>>>>),
       Params(<<1, 20>>, 2, "COSINE", 0, "NULL")>>,
     <<StalePoints(<<OnAxis(0), OnAxis(1)>>), Params(<<1, 1>>, 0, "EUCLIDEAN", 0, "NULL")>>}

ConcInit ==
    \E c1, c2 \in ConcurrentCalls :
        /\ points = c1[1]
        /\ num_points = Len(c1[1])
        /\ arg = c1[2]
        /\ pc = "idle"
        /\ params = c1[2]
        /\ neighbors = <<>>
        /\ seeds = <<>>
        /\ current_seed = 0
        /\ tree = NULL
        /\ cluster_id = 0
        /\ i = 0
        /\ ret = 0
        /\ heap = EmptyHeap
        /\ run = 0
        /\ before = c1[1]
        /\ mode = "none"
        /\ nfail = MaxAllocFailures
        /\ prev = [ret |-> 0, points |-> <<>>, mode |-> "none", params |-> c1[2]]
        /\ other = [id |-> 2, ctx |-> FirstContext(c2[1], c2[2]), mixed |-> FALSE]
        /\ call = [fn |-> "none"]
        /\ out = 0

\* variant: cluster_id is one variable of the library, not one per invocation
Switch_shared_cluster_id ==
    /\ other.id # 0
    /\ other' = [id |-> 3 - other.id, ctx |-> Context,
                 mixed |-> other.mixed \/ (pc # "idle" /\ other.ctx.pc # "idle")]
    /\ points' = other.ctx.points
    /\ num_points' = other.ctx.num_points
    /\ arg' = other.ctx.arg
    /\ pc' = other.ctx.pc
    /\ params' = other.ctx.params
    /\ neighbors' = other.ctx.neighbors
    /\ seeds' = other.ctx.seeds
    /\ current_seed' = other.ctx.current_seed
    /\ tree' = other.ctx.tree
    /\ cluster_id' = cluster_id
    /\ i' = other.ctx.i
    /\ ret' = other.ctx.ret
    /\ heap' = other.ctx.heap
    /\ run' = other.ctx.run
    /\ before' = other.ctx.before
    /\ mode' = other.ctx.mode
    /\ nfail' = other.ctx.nfail
    /\ prev' = other.ctx.prev
    /\ UNCHANGED <<call, out>>

\* the running invocation is suspended and the other one resumed; `mixed`
\* records that both were between entry and return at some switch
Switch ==
    /\ other.id # 0
    /\ other' = [id |-> 3 - other.id, ctx |-> Context,
                 mixed |-> other.mixed \/ (pc # "idle" /\ other.ctx.pc # "idle")]
    /\ points' = other.ctx.points
    /\ num_points' = other.ctx.num_points
    /\ arg' = other.ctx.arg
    /\ pc' = other.ctx.pc
    /\ params' = other.ctx.params
    /\ neighbors' = other.ctx.neighbors
    /\ seeds' = other.ctx.seeds
    /\ current_seed' = other.ctx.current_seed
    /\ tree' = other.ctx.tree
    /\ cluster_id' = other.ctx.cluster_id
    /\ i' = other.ctx.i
    /\ ret' = other.ctx.ret
    /\ heap' = other.ctx.heap
    /\ run' = other.ctx.run
    /\ before' = other.ctx.before
    /\ mode' = other.ctx.mode
    /\ nfail' = other.ctx.nfail
    /\ prev' = other.ctx.prev
    /\ UNCHANGED <<call, out>>

\* each caller calls once while the other may be running, and once more, with
\* the same arguments, when both first calls have returned and the other
\* caller is not in a call
EnterConcurrently(kd) ==
    /\ Enter(kd)
    /\ run >= 1 => (other.ctx.run >= 1 /\ other.ctx.pc = "idle")
    /\ other.ctx.pc # "idle" => other.ctx.run = 1

ConcNext ==
    \/ Switch
    \/ \E kd \in {0, 1} : EnterConcurrently(kd)
    \/ ValidateFails
    \/ ValidatePasses
    \/ ResetLabels
    \/ AllocBuffers
    \/ BuildTree
    \/ SkipClassified
    \/ MarkNoise
    \/ StartCluster
    \/ ProcessSeed
    \/ FinishCluster
    \/ Return

ConcSpec == ConcInit /\ [][ConcNext]_vars

(* ----------------- the other public functions, called alone ------------ *)
\* no call has been made yet
Uncalled == pc = "idle" /\ run = 0 /\ call.fn = "none"

\* the caller passes an array cdbscan_validate_data accepts
ValidData == cdbscan_validate_data(points, num_points) # 0

\* cdbscan_region_query(points, num_points, point_idx, eps, neighbors)
CallRegionQuery ==
    /\ Uncalled /\ ValidData
    /\ \E point_idx \in -1 .. num_points, eps \in EpsChoices :
          LET found == cdbscan_region_query(points, num_points, point_idx, eps)
          IN  /\ call' = [fn |-> "cdbscan_region_query", point_idx |-> point_idx,
                          eps |-> eps]
              /\ neighbors' = found
              /\ out' = Len(found)
    /\ UNCHANGED <<other, points, inputs, pc, params, seeds, current_seed, tree, cluster_id,
                   i, ret, heap, ghosts>>

\* cdbscan_region_query_custom(points, num_points, point_idx, &arg, neighbors)
CallRegionQueryCustom ==
    /\ Uncalled /\ ValidData
    /\ cdbscan_validate_params(arg) # 0
    /\ \E point_idx \in -1 .. num_points :
          LET found == cdbscan_region_query_custom(points, num_points, point_idx, arg)
          IN  /\ call' = [fn |-> "cdbscan_region_query_custom",
                          point_idx |-> point_idx, eps |-> arg.eps]
              /\ neighbors' = found
              /\ out' = Len(found)
    /\ UNCHANGED <<other, points, inputs, pc, params, seeds, current_seed, tree, cluster_id,
                   i, ret, heap, ghosts>>

\* every coordinate the distance functions read exists and is a finite number
Readable ==
    /\ points # NULL
    /\ \A k \in 1..Len(points) :
          points[k].coords # NULL =>
              /\ points[k].dimensions <= Len(points[k].coords)
              /\ \A d \in 1..Len(points[k].coords) :
                    ~isnan(points[k].coords[d]) /\ ~isinf(points[k].coords[d])

\* cdbscan_estimate_eps(points, num_points, k)
CallEstimateEps ==
    /\ Uncalled
    /\ points = NULL \/ Readable
    /\ \E k \in -1 .. num_points + 1 :
          /\ call' = [fn |-> "cdbscan_estimate_eps", k |-> k]
          /\ out' = cdbscan_estimate_eps(points, num_points, k)
    /\ UNCHANGED <<other, points, inputs, pc, params, neighbors, seeds, current_seed, tree,
                   cluster_id, i, ret, heap, ghosts>>

\* one of the four public distance functions
DistanceFns ==
    {"cdbscan_euclidean_distance", "cdbscan_manhattan_distance",
     "cdbscan_minkowski_distance", "cdbscan_cosine_distance"}
PublicDistance(fn, a, b, dims, p) ==
    CASE fn = "cdbscan_euclidean_distance" -> cdbscan_euclidean_distance(a, b, dims)
      [] fn = "cdbscan_manhattan_distance" -> cdbscan_manhattan_distance(a, b, dims)
      [] fn = "cdbscan_minkowski_distance" -> cdbscan_minkowski_distance(a, b, dims, p)
      [] OTHER -> cdbscan_cosine_distance(a, b, dims)

\* the exponents passed to cdbscan_minkowski_distance
Exponents == {-1, 0, 1, 2, 3}

\* a distance function is called on two coordinate arrays of the caller (or
\* null pointers), and again with the two arrays exchanged
CallDistance ==
    /\ Uncalled /\ Readable
    /\ \E fn \in DistanceFns,
          a, b \in {points[k].coords : k \in 1..Len(points)} \cup {NULL},
          dims \in {-1, 0, points[1].dimensions},
          p \in Exponents :
          /\ fn # "cdbscan_minkowski_distance" => p = 2
          /\ a # NULL => dims <= Len(a)
          /\ b # NULL => dims <= Len(b)
          /\ call' = [fn |-> fn, a |-> a, b |-> b, dims |-> dims, p |-> p]
          /\ out' = [d |-> PublicDistance(fn, a, b, dims, p),
                     swapped |-> PublicDistance(fn, b, a, dims, p)]
    /\ UNCHANGED <<other, points, inputs, pc, params, neighbors, seeds, current_seed, tree,
                   cluster_id, i, ret, heap, ghosts>>

ApiNext ==
    \/ CallRegionQuery
    \/ CallRegionQueryCustom
    \/ CallEstimateEps
    \/ CallDistance

ApiSpec == Init /\ [][ApiNext]_vars

(* ------------------------ vocabulary of the claims --------------------- *)
Label(k) == points[k + 1].cluster_id
Idx == 0 .. (num_points - 1)
Range(sq) == {sq[j] : j \in 1..Len(sq)}

\* the last call has returned
Returned == pc = "idle" /\ run >= 1
Succeeded == Returned /\ ret >= 0
\* no allocation of the current call failed
CleanCall == mode \in {"brute", "kdtree"}
BuiltIn == params.dist_type # "CUSTOM"

\* the eps-neighborhood of point k, as the query of the call returns it
Nbrs(k) == Range(Query(tree, points, num_points, k, params))
\* q is returned for p exactly when p is returned for q
SymmetricQuery == \A p, q \in Idx : q \in Nbrs(p) <=> p \in Nbrs(q)
IsCore(k) == Cardinality(Nbrs(k)) >= params.min_pts
\* some core point has k within eps
NearCore(k) == \E c \in Idx : IsCore(c) /\ k \in Nbrs(c)

\* the points density-reachable from the points of S
RECURSIVE ReachFrom(_)
ReachFrom(S) ==
    LET T == S \cup UNION {Nbrs(x) : x \in {y \in S : IsCore(y)}}
    IN  IF T = S THEN S ELSE ReachFrom(T)

\* what the claims list as invalid input, read off the field values
InvalidInput ==
    \/ arg.eps[1] <= 0
    \/ arg.min_pts < 1
    \/ arg.dist_type = "MINKOWSKI" /\ arg.minkowski_p <= 0
    \/ arg.dist_type = "CUSTOM" /\ arg.custom_dist = "NULL"
    \/ num_points <= 0
    \/ points = NULL
    \/ \E k \in 1..num_points :
          \/ points[k].coords = NULL
          \/ points[k].dimensions <= 0
          \/ points[k].dimensions # points[1].dimensions
          \/ \E d \in 1..Len(points[k].coords) :
                points[k].coords[d] \in {NaNCode, InfCode, -InfCode}

(* -------------------------------- claims ------------------------------- *)
\* C1 (as claimed): after a call that returned k >= 0, every cluster_id is
\* CDBSCAN_NOISE or lies in 0 .. k-1.  Stated for the built-in metrics and
\* the calls in which no allocation failed.
C1_LabelsInRange ==
    (Succeeded /\ CleanCall /\ BuiltIn) =>
        \A k \in Idx : Label(k) = CDBSCAN_NOISE \/ (0 <= Label(k) /\ Label(k) < ret)

\* C2: a call on invalid parameters or data returns a negative value and
\* leaves the point array (cluster_id and index of every point) as it was.
C2_ValidationFailureKeepsLabels ==
    (Returned /\ InvalidInput) => (ret < 0 /\ points = before)

C2_Witness ==
    /\ Returned /\ InvalidInput /\ ret < 0
    /\ points # NULL /\ points[1].cluster_id = 1 /\ points[1].index = 0
    /\ arg.min_pts < 1

\* C3: with the Euclidean metric and a completely built tree the KD-tree
\* range query returns, for every query point and radius, the index set the
\* brute-force scan returns; and of two successful calls on the same data,
\* one with and one without the tree, each leaves the same cluster_id in
\* every point and returns the same count.
C3_KdtreeEqualsBruteForce ==
    /\ (mode = "kdtree" /\ pc \in {"scan", "expand"}) =>
          \A q \in Idx, e \in EpsChoices :
              Range(kdtree_range_query(tree, points, q, e))
                  = Range(cdbscan_region_query(points, num_points, q, e))
    /\ (Succeeded /\ run >= 2 /\ prev.ret >= 0
        /\ params.dist_type = "EUCLIDEAN"
        /\ {mode, prev.mode} = {"brute", "kdtree"}) =>
          (ret = prev.ret /\ points = prev.points)

C3_Witness ==
    /\ Succeeded /\ run >= 2 /\ prev.mode = "brute" /\ mode = "kdtree"
    /\ num_points >= 3 /\ ret >= 1
    /\ \E k \in Idx : Label(k) = CDBSCAN_NOISE
    /\ \E q \in Idx : Cardinality(Nbrs(q)) \notin {1, num_points}

\* C4 (as claimed): after a successful call every point whose neighborhood,
\* as the configured query returns it, has at least min_pts members has a
\* cluster index >= 0.  Stated for the built-in metrics and the calls in
\* which no allocation failed.
C4_CorePointsClustered ==
    (Succeeded /\ CleanCall /\ BuiltIn) =>
        \A k \in Idx :
            Len(Query(tree, points, num_points, k, params)) >= params.min_pts
                => Label(k) >= 0

\* C5 (as claimed): after a successful call, a point q density-reachable
\* from a point p that has cluster id C has cluster id C too, border points
\* included.  Stated for the built-in metrics and the calls in which no
\* allocation failed.
C5_Maximality ==
    (Succeeded /\ CleanCall /\ BuiltIn) =>
        \A p \in Idx : Label(p) >= 0 =>
            \A q \in ReachFrom({p}) : Label(q) = Label(p)

\* C5 (amended): after a successful call whose neighborhood query is
\* symmetric, a core point q density-reachable from a point p with cluster
\* id C has cluster id C, and a point q that is density-reachable from p and
\* is not a core point has some cluster id >= 0, C or the id of another
\* cluster.
C5_MaximalityForCorePoints ==
    (Succeeded /\ SymmetricQuery) =>
        \A p \in Idx : Label(p) >= 0 =>
            \A q \in ReachFrom({p}) :
                IF IsCore(q) THEN Label(q) = Label(p) ELSE Label(q) >= 0

\* a border point reachable from a core point of another cluster
C5_Witness ==
    /\ Succeeded /\ SymmetricQuery
    /\ \E p, q \in Idx :
          /\ Label(p) >= 0 /\ IsCore(p) /\ q \in ReachFrom({p})
          /\ ~IsCore(q) /\ Label(q) >= 0 /\ Label(q) # Label(p)

\* C6 (as claimed): after a successful call with a built-in metric, a point
\* that is not a core point and is within eps of a core point has the
\* cluster id of a core point within eps of it, and a point is CDBSCAN_NOISE
\* exactly when it is not a core point and no core point is within eps of
\* it.  Stated for the calls in which no allocation failed.
C6_BorderAndNoise ==
    (Succeeded /\ CleanCall /\ BuiltIn) =>
        \A k \in Idx :
            /\ (~IsCore(k) /\ NearCore(k)) =>
                  \E c \in Idx : IsCore(c) /\ k \in Nbrs(c) /\ Label(c) >= 0
                                 /\ Label(k) = Label(c)
            /\ (Label(k) = CDBSCAN_NOISE) <=> (~IsCore(k) /\ ~NearCore(k))

\* the steps of one call after its reset of the labels
InRun == pc \in {"alloc", "build", "scan", "expand"}

\* C7 (as claimed): within one call a label that is a cluster id is never
\* changed again.  Stated for the built-in metrics and the calls in which no
\* allocation failed.
C7_ClusterLabelFinal ==
    [][(InRun /\ BuiltIn /\ mode # "partial") =>
          \A k \in Idx : Label(k) >= 0 => points'[k + 1].cluster_id = Label(k)]_vars

\* C7 (amended): within one call a label that is a cluster id is never set
\* to Noise or Unclassified, and the outer loop and the seed loop never
\* change it; only the labelling of the initial seed set of a later cluster
\* replaces it, by the id of that later cluster.
C7_ClusterLabelOnlyReseeded ==
    [][InRun =>
          \A k \in Idx : Label(k) >= 0 =>
              \/ points'[k + 1].cluster_id = Label(k)
              \/ /\ pc = "scan" /\ pc' = "expand"
                 /\ points'[k + 1].cluster_id = cluster_id
                 /\ Label(k) < cluster_id
                 /\ k \in Range(Query(tree, points, num_points, i, params))]_vars

\* the initial seed set of cluster 1 took a point of cluster 0
C7_Witness ==
    /\ pc = "expand" /\ current_seed = 0 /\ cluster_id >= 1 /\ BuiltIn /\ CleanCall
    /\ \E k \in Range(seeds), c \in Idx :
          /\ Label(k) = cluster_id
          /\ c < i /\ IsCore(c) /\ Label(c) >= 0 /\ Label(c) < cluster_id
          /\ k \in Nbrs(c)

\* C8 (as claimed): whenever the call returns the negative sentinel, the
\* point array is as it was before the call.
C8_ErrorKeepsLabels ==
    (Returned /\ ret < 0) => points = before

\* C9 (as claimed): a call whose index build met an allocation failure
\* returns the labels and the count of the brute-force call on the same data.
C9_BuildFailureFallsBack ==
    (Succeeded /\ run >= 2 /\ mode \in {"fallback", "partial"}
     /\ prev.mode = "brute" /\ prev.ret >= 0) =>
        (ret = prev.ret /\ points = prev.points)

\* C10: two successful calls with the same parameters on the same
\* coordinates leave the same labels and return the same count, whatever
\* cluster_id and index the points held when each call began.
C10_Deterministic ==
    (Succeeded /\ run >= 2 /\ prev.ret >= 0 /\ CleanCall
     /\ prev.mode = mode /\ prev.params = params) =>
        (ret = prev.ret /\ points = prev.points)

C10_Witness ==
    /\ Succeeded /\ run >= 2 /\ prev.ret >= 1 /\ CleanCall
    /\ prev.mode = mode /\ prev.params = params
    /\ before # FreshPoints([k \in 1..num_points |-> points[k].coords])
    /\ \E k \in Idx : Label(k) = CDBSCAN_NOISE

(* ------------------------ claims on the region queries ----------------- *)
\* a region query has returned for a valid query index
Queried ==
    /\ call.fn \in {"cdbscan_region_query", "cdbscan_region_query_custom"}
    /\ call.point_idx \in Idx
\* the distance the query computes from the query point to point j
QueryDist(j) ==
    LET q == points[call.point_idx + 1]
    IN  IF call.fn = "cdbscan_region_query"
        THEN cdbscan_euclidean_distance(q.coords, points[j + 1].coords, q.dimensions)
        ELSE calculate_distance(q.coords, points[j + 1].coords, q.dimensions, arg)
QueryBuiltIn == call.fn = "cdbscan_region_query" \/ arg.dist_type # "CUSTOM"

Estimated == call.fn = "cdbscan_estimate_eps"

\* C12: cdbscan_estimate_eps returns NULL when points is absent,
\* num_points <= 0, k < 1 or k >= num_points; on every other input it
\* returns num_points k-distances, the k it was given and a suggested
\* radius >= 0, touching only positions 0 .. num_points - 1 of its arrays.
C12_EstimateContract ==
    Estimated =>
        IF points = NULL \/ num_points <= 0 \/ call.k < 1 \/ call.k >= num_points
        THEN out = NULL
        ELSE /\ out # NULL
             /\ Len(out.distances) = num_points
             /\ out.k = call.k
             /\ DistNonNeg(out.suggested_eps)
             /\ out.touched \subseteq 0 .. num_points - 1

(* -------------------------- claims on examples ------------------------- *)
\* the call clusters the four corners of the square with radius 0.25
OnSquare ==
    /\ num_points = Len(SquareData)
    /\ \A k \in 1..num_points : points[k].coords = SquareData[k]
    /\ arg = Params(<<5, 4>>, 4, "EUCLIDEAN", 0, "NULL")

\* C13 (as claimed): clustering the four corners (0,0), (0.2,0), (0.2,0.2),
\* (0,0.2) with the Euclidean metric, eps 0.25 and min_pts 4 makes all four
\* core points of one cluster and returns 1.
C13_SquareIsOneCluster ==
    (Returned /\ CleanCall /\ OnSquare) =>
        /\ ret = 1
        /\ \A k \in Idx : IsCore(k) /\ Label(k) = 0

\* C13 (amended): on that input no point is a core point (each has three
\* points within 0.25: itself and the two adjacent corners), all four end
\* CDBSCAN_NOISE and the call returns 0.
C13_SquareIsNoise ==
    (Returned /\ CleanCall /\ OnSquare) =>
        /\ ret = 0
        /\ \A k \in Idx : /\ ~IsCore(k)
                           /\ Cardinality(Nbrs(k)) = 3
                           /\ Label(k) = CDBSCAN_NOISE

C13_Witness ==
    /\ Returned /\ CleanCall /\ OnSquare
    /\ mode = "kdtree"
    /\ \A k \in Idx : Label(k) = CDBSCAN_NOISE

\* dist >= c, for an integer c > 2 (a cosine distance is at most 2)
DistGeq(d, c) == d[1] = "root" /\ d[2] >= Pow(c, d[3])
\* the distance from point j to point k under the metric of the call
DistBetween(j, k) ==
    calculate_distance(points[j + 1].coords, points[k + 1].coords,
                       points[j + 1].dimensions, params)
\* the distance from k to every other point is at least 10
Isolated(k) == \A j \in Idx \ {k} : DistGeq(DistBetween(k, j), 10)
\* and so is the distance from every other point to k
IsolatedBothWays(k) ==
    \A j \in Idx \ {k} : DistGeq(DistBetween(k, j), 10) /\ DistGeq(DistBetween(j, k), 10)
EpsBelow5 == params.eps[1] < 5 * params.eps[2]

\* C14 (as claimed): a point at distance 10 or more from every other point
\* ends CDBSCAN_NOISE for every eps < 5 and every min_pts >= 1.  Stated for
\* the built-in metrics and two or more points.
C14_IsolatedIsNoise ==
    (Succeeded /\ CleanCall /\ BuiltIn /\ num_points >= 2 /\ EpsBelow5
       /\ params.min_pts >= 1) =>
        \A k \in Idx : Isolated(k) => Label(k) = CDBSCAN_NOISE

\* C14 (amended): after a successful call a point at distance 10 or more
\* from and to every other point is CDBSCAN_NOISE, for every eps < 5 and
\* every min_pts >= 2.
C14_IsolatedIsNoiseFromTwo ==
    (Succeeded /\ EpsBelow5 /\ params.min_pts >= 2) =>
        \A k \in Idx : IsolatedBothWays(k) => Label(k) = CDBSCAN_NOISE

\* an isolated point is noise beside a cluster of the other points
C14_Witness ==
    /\ Succeeded /\ CleanCall /\ EpsBelow5 /\ params.min_pts >= 2
    /\ ret = 1
    /\ \E k \in Idx : IsolatedBothWays(k) /\ Label(k) = CDBSCAN_NOISE

(* -------------------- connectivity and separation ---------------------- *)
\* not every distance between j and k exceeds eps
Linked(j, k) == DistLeq(DistBetween(j, k), params.eps) \/ DistLeq(DistBetween(k, j), params.eps)
\* the points joined to the points of S by a chain of such pairs: no split
\* of the points into two groups with all cross-group distances above eps
\* separates them from S
RECURSIVE Component(_)
Component(S) ==
    LET T == S \cup {k \in Idx : \E j \in S : Linked(j, k)}
    IN  IF T = S THEN S ELSE Component(T)

\* C15: after a successful run with a symmetric metric every point with a
\* cluster id is a core point or lies within eps of a core point with the
\* same cluster id, and no cluster id is shared between two groups of
\* points whose every cross-group distance exceeds eps.  Stated for the
\* built-in metrics.
C15_ConnectedAndSeparated ==
    (Succeeded /\ CleanCall /\ BuiltIn /\ SymmetricQuery) =>
        /\ \A k \in Idx : Label(k) >= 0 =>
              \/ IsCore(k)
              \/ \E c \in Idx : IsCore(c) /\ k \in Nbrs(c) /\ Label(c) = Label(k)
        /\ \A j, k \in Idx : (Label(j) >= 0 /\ Label(j) = Label(k)) => k \in Component({j})

(* ---------------------------- the cluster count ------------------------ *)
\* the cluster ids present in the labels
IdsInUse == {Label(k) : k \in {j \in Idx : Label(j) >= 0}}

\* C16: the value a successful call returns is the number of distinct
\* cluster ids in the final labels, and every id in [0, returned count) is
\* the label of at least one point.  Stated for the built-in metrics.
C16_CountIsIdsInUse ==
    (Succeeded /\ CleanCall /\ BuiltIn) =>
        /\ ret = Cardinality(IdsInUse)
        /\ IdsInUse = 0 .. (ret - 1)

(* ------------------------------ allocations ---------------------------- *)
\* C17: when cdbscan_cluster has returned, on whatever path, no block it
\* allocated is left allocated and no block was freed twice or freed
\* without having been allocated: the working buffers, the header and the
\* nodes of the index, of a partly built one too, are each freed once.
C17_EveryBlockFreedOnce ==
    /\ Returned => heap.live = {}
    /\ heap.bad = {}

\* a call that built only part of the index has returned
C17_Witness ==
    /\ Returned
    /\ mode = "partial"
    /\ tree # NULL /\ tree[1] # NULL
    /\ heap = EmptyHeap

(* --------------------- claims on the distance functions ---------------- *)
Measured == call.fn \in DistanceFns
\* the preconditions of the distance functions fail
BadDistanceCall ==
    \/ call.a = NULL \/ call.b = NULL \/ call.dims <= 0
    \/ call.fn = "cdbscan_minkowski_distance" /\ call.p <= 0

\* C19: each public distance function returns -1.0 when either vector is
\* null or the dimension is <= 0, the Minkowski function also when p <= 0,
\* and a non-negative value on every other input.
C19_SentinelOrNonNegative ==
    Measured => IF BadDistanceCall THEN out.d = SENTINEL ELSE DistNonNeg(out.d)

\* C20: the Euclidean, Manhattan and Minkowski (p > 0) distances of two
\* vectors of equal dimension do not depend on the order of the two.
C20_Symmetric ==
    (Measured /\ call.fn # "cdbscan_cosine_distance" /\ ~BadDistanceCall) =>
        out.d = out.swapped

\* a distance function returned a positive distance for two different vectors
C20_Witness ==
    /\ Measured /\ call.fn = "cdbscan_minkowski_distance" /\ ~BadDistanceCall
    /\ call.a # call.b
    /\ call.p = 3
    /\ out.d[2] > 1
    /\ out.d = out.swapped

(* ------------------------- concurrent invocations ---------------------- *)
\* C18: an invocation that ran while another invocation on another point
\* array was running ends with the labels and the count it produces when
\* it runs alone: the call repeated alone gives the same outcome.
C18_NoInterference ==
    (other.id # 0 /\ Returned /\ run = 2) =>
        (ret = prev.ret /\ points = prev.points)

\* two invocations that each found a cluster were interleaved, and one of
\* them has been repeated alone
C18_Witness ==
    /\ other.id # 0 /\ other.mixed
    /\ Returned /\ run = 2
    /\ prev.ret >= 1 /\ other.ctx.ret >= 1
    /\ points # other.ctx.points

(* --------------------------- claims on the index ----------------------- *)
\* coordinate s of the point with index k
Coord(k, s) == points[k + 1].coords[s + 1]
\* the index was built in full
Built == tree # NULL /\ mode = "kdtree"

\* every node of the subtree separates its left subtree from its right one:
\* left coordinates below the node's (strictly, or not), right ones not below
RECURSIVE Separates(_, _)
Separates(node, strict) ==
    \/ node = NULL
    \/ /\ \A k \in NodesOf(node[3]) :
             IF strict THEN Coord(k, node[2]) < Coord(node[1], node[2])
             ELSE Coord(k, node[2]) <= Coord(node[1], node[2])
       /\ \A k \in NodesOf(node[4]) : Coord(k, node[2]) >= Coord(node[1], node[2])
       /\ Separates(node[3], strict)
       /\ Separates(node[4], strict)

\* C21 (as claimed): in a built index every point of a node's left subtree
\* has a strictly smaller coordinate in the node's split dimension than the
\* node's point, every point of its right subtree one that is not smaller.
C21_LeftStrictlySmaller == Built => Separates(tree[1], TRUE)

\* C21 (amended): every point of a node's left subtree has a coordinate in
\* the node's split dimension that is smaller than or equal to the node's,
\* every point of its right subtree one that is greater or equal.
C21_LeftNotGreater == Built => Separates(tree[1], FALSE)

\* a built index with a point in a left subtree whose coordinate equals the
\* node's
C21_Witness ==
    /\ Built /\ tree[1] # NULL
    /\ \E k \in NodesOf(tree[1][3]) : Coord(k, tree[1][2]) = Coord(tree[1][1], tree[1][2])

\* the nodes of a subtree in pre-order, each with the depth it lies at
RECURSIVE NodesAtDepth(_, _)
NodesAtDepth(node, depth) ==
    IF node = NULL THEN <<>>
    ELSE <<[node |-> node, depth |-> depth]>>
         \o NodesAtDepth(node[3], depth + 1) \o NodesAtDepth(node[4], depth + 1)

\* C22: a built index over n points has exactly n nodes and every index
\* 0..n-1 is the point of exactly one of them; a node at depth d records
\* the split dimension d mod D; a node whose subtree holds a single index
\* has no children.
C22_OneNodePerPoint ==
    Built =>
        LET all == NodesAtDepth(tree[1], 0)
        IN  /\ Len(all) = num_points
            /\ \A k \in Idx : Cardinality({x \in 1..Len(all) : all[x].node[1] = k}) = 1
            /\ \A x \in 1..Len(all) :
                   /\ all[x].node[2] = all[x].depth % tree[3]
                   /\ Len(NodesAtDepth(all[x].node, 0)) = 1
                          => all[x].node[3] = NULL /\ all[x].node[4] = NULL

\* a built index of three levels over points of two dimensions
C22_Witness ==
    /\ Built /\ tree[3] = 2 /\ num_points >= 4
    /\ \E x \in 1..Len(NodesAtDepth(tree[1], 0)) : NodesAtDepth(tree[1], 0)[x].depth = 2

\* the entries of a buffer increase strictly from each one to the next
StrictlyAscending(s) == \A x \in 1..Len(s) - 1 : s[x] < s[x + 1]

\* C23: on a built index the range query returns, for every query point and
\* radius, its indices in strictly ascending order without duplicates, and
\* the sequence is the one the brute-force scan returns for that query.
C23_SameSequenceAsScan ==
    (Built /\ pc \in {"scan", "expand"}) =>
        \A q \in Idx, e \in EpsChoices :
            /\ StrictlyAscending(kdtree_range_query(tree, points, q, e))
            /\ kdtree_range_query(tree, points, q, e)
                   = cdbscan_region_query(points, num_points, q, e)

\* a query on a built index whose traversal finds three points or more
\* in an order that is not ascending
C23_Witness ==
    /\ Built /\ pc \in {"scan", "expand"}
    /\ \E q \in Idx :
           LET found == kdtree_range_query_recursive(tree[1], points[q + 1], params.eps,
                                                     points, <<>>, tree[3])
           IN  /\ Len(found) >= 3
               /\ ~StrictlyAscending(found)
               /\ Len(found) < num_points

(* ------------------------ claims on the seed list ---------------------- *)
\* no index occurs twice in the list
Distinct(s) == \A x, y \in 1..Len(s) : x # y => s[x] # s[y]

\* both buffers hold at most num_points entries (lines 641-643 allocate
\* num_points ints for each), all of them point indices
WithinBuffers ==
    /\ Len(seeds) <= num_points /\ Range(seeds) \subseteq Idx
    /\ Len(neighbors) <= num_points /\ Range(neighbors) \subseteq Idx

\* the entries a pass of the seed loop has appended to the list
Appended == {x \in 1..Len(seeds') : x > Len(seeds)}

\* a pass of the seed loop keeps the entries of the list and appends only
\* points that were unclassified, giving each the cluster id as it does so
AppendsUnclassified ==
    (pc = "expand" /\ pc' = "expand") =>
        /\ Len(seeds') >= Len(seeds)
        /\ \A x \in 1..Len(seeds) : seeds'[x] = seeds[x]
        /\ \A x \in Appended :
               /\ points[seeds'[x] + 1].cluster_id = CDBSCAN_UNCLASSIFIED
               /\ points'[seeds'[x] + 1].cluster_id = cluster_id

\* C24: while a call is clustering, the seed list and the neighbors buffer
\* never hold more than num_points entries; the seed list holds no index
\* twice, and a point is appended to it only while it is unclassified and is
\* given the cluster id in the same step.
C24_SeedsWithinBuffer ==
    [][ /\ (pc' \in {"scan", "expand"} => WithinBuffers' /\ Distinct(seeds'))
        /\ AppendsUnclassified ]_vars

\* a seed list that has grown by appends to hold every point but the origin
C24_Witness ==
    /\ pc = "expand" /\ num_points >= 4
    /\ Len(seeds) = num_points - 1
    /\ current_seed >= 2
    /\ \E x \in 1..Len(seeds) : x > Len(RemoveCore(Query(tree, points, num_points, i, params), i, 0))

\* the points labelled noise before a step of the loops of lines 663-700
NoisePoints ==
    IF pc \in {"scan", "expand"} THEN {k \in Idx : Label(k) = CDBSCAN_NOISE} ELSE {}

\* the point whose neighborhood the step queries: the point of the outer
\* loop (lines 668-669) or the current seed (lines 747-748 / 814-815), -1
\* when the step makes no query
QueriedPoint ==
    IF pc = "scan" /\ i < num_points /\ Label(i) = CDBSCAN_UNCLASSIFIED THEN i
    ELSE IF pc = "expand" /\ current_seed < Len(seeds) THEN seeds[current_seed + 1]
    ELSE -1

\* C25 (as claimed): a point labelled noise is never placed in the seed
\* list of a cluster, neither with the initial neighborhood of the
\* originating core point nor by the seed loop, and is never queried.
\* Stated for the built-in metrics and the calls in which no allocation
\* failed.
C25_NoiseNeverSeeded ==
    [][ (CleanCall /\ BuiltIn) =>
            /\ pc' = "expand" => NoisePoints \cap Range(seeds') = {}
            /\ QueriedPoint \notin NoisePoints ]_vars

\* C25 (amended): the seed loop gives a noise point it reaches the cluster
\* id without placing it in the seed list, and no noise point is queried by
\* the outer loop or as a seed; the noise points in the initial neighborhood
\* of the originating core point are labelled with it and stay in the seed
\* list.
C25_NoiseSeededOnlyAtStart ==
    [][ /\ (pc = "expand" /\ pc' = "expand") =>
               /\ NoisePoints \cap Range(seeds') = {}
               /\ \A k \in NoisePoints : points'[k + 1].cluster_id \in {CDBSCAN_NOISE, cluster_id}
        /\ (pc = "scan" /\ pc' = "expand") =>
               /\ Nbrs(i) \cap NoisePoints \subseteq Range(seeds')
               /\ \A k \in Nbrs(i) : points'[k + 1].cluster_id = cluster_id
        /\ QueriedPoint \notin NoisePoints ]_vars

\* the seed loop has given the cluster id to a point it did not append
C25_Witness ==
    /\ pc = "expand" /\ CleanCall /\ BuiltIn
    /\ \E k \in Idx \ (Range(seeds) \cup {i}) :
           Label(k) = cluster_id /\ k < i /\ k \notin Nbrs(i)

\* the last call and the one before it were made with different use_kdtree
\* and both returned a count
KdtreeToggled ==
    /\ Succeeded /\ run >= 2 /\ prev.ret >= 0 /\ prev.mode # "none"
    /\ (params.use_kdtree = 0) # (prev.params.use_kdtree = 0)

\* C26: with a metric other than the Euclidean one a call builds no index,
\* whatever use_kdtree is, and of two calls on the same data that differ in
\* use_kdtree each leaves the same cluster_id in every point and returns the
\* same count.
C26_KdtreeOnlyForEuclidean ==
    /\ (pc # "idle" /\ params.dist_type # "EUCLIDEAN") =>
           /\ tree = NULL
           /\ \A b \in heap.live : b[1] \notin {"tree", "indices", "node"}
    /\ (KdtreeToggled /\ params.dist_type # "EUCLIDEAN") =>
           (ret = prev.ret /\ points = prev.points)

\* a call with use_kdtree set and a metric other than the Euclidean one
\* that found a cluster and a noise point, after one without use_kdtree
C26_Witness ==
    /\ KdtreeToggled /\ params.dist_type = "MANHATTAN"
    /\ params.use_kdtree # 0 /\ mode = "brute" /\ prev.mode = "brute"
    /\ ret >= 1 /\ \E k \in Idx : Label(k) = CDBSCAN_NOISE

(* ------------------- claims on the estimated radius -------------------- *)
\* the square of the Euclidean distance between points j and k
SquaredGap(j, k) ==
    LET a == points[j + 1].coords
        b == points[k + 1].coords
    IN  SumTo([d \in 1..Len(a) |-> (a[d] - b[d]) * (a[d] - b[d])], Len(a))

\* v is the k-th smallest (counted from 1) of the values f[x], x in S
KthSmallest(v, f, S, k) ==
    /\ \E x \in S : f[x] = v
    /\ Cardinality({x \in S : f[x] < v}) < k
    /\ Cardinality({x \in S : f[x] <= v}) >= k

\* the call returned a result for data cdbscan_validate_data accepts
EstimatedOnValidData == Estimated /\ out # NULL /\ ValidData

CoresOf(c) == {k \in Idx : IsCore(k) /\ Label(k) = c}
\* the lowest index of a non-empty set of point indices
Lowest(S) == CHOOSE k \in S : \A j \in S : k <= j

\* while cluster cluster_id is expanded, point i, from which it was
\* started, carries that id and no core point of lower index does
OriginIsLowestCore ==
    pc = "expand" =>
        /\ Label(i) = cluster_id
        /\ \A k \in CoresOf(cluster_id) : i <= k

\* after the call every id below the count has a core point, and the
\* lowest core points of the clusters come in the order of the ids
IdsFollowLowestCore ==
    Succeeded =>
        \A c \in 0 .. ret - 1 :
            /\ CoresOf(c) # {}
            /\ \A b \in 0 .. c - 1 : Lowest(CoresOf(b)) < Lowest(CoresOf(c))

\* C28: with a symmetric metric the point from which cluster c is started
\* is the lowest-indexed core point of that cluster and keeps the label c
\* to the end of the call (no step changes the cluster id of a core point),
\* and the cluster ids increase with the lowest core-point index.  Stated
\* for the built-in metrics and the calls in which no allocation failed.
C28_OriginKeepsLowestId ==
    /\ []((CleanCall /\ BuiltIn) => (OriginIsLowestCore /\ IdsFollowLowestCore))
    /\ [][(InRun /\ CleanCall /\ BuiltIn) =>
             \A k \in Idx : (IsCore(k) /\ Label(k) >= 0) =>
                 points'[k + 1].cluster_id = Label(k)]_vars

(* --------------------------- claims on termination --------------------- *)
\* The function runs on the caller's thread from its first statement to a
\* return: a call that has a next step takes it.  The caller decides whether
\* to call again, so Enter has no fairness condition.

\* the conditions under which BuildTree, MarkNoise, StartCluster and
\* ProcessSeed can take a step: the conjuncts of each action that hold no
\* primed variable
CanBuildTree == pc = "build"
CanMarkNoise ==
    /\ pc = "scan"
    /\ i < num_points
    /\ points[i + 1].cluster_id = CDBSCAN_UNCLASSIFIED
    /\ Len(Query(tree, points, num_points, i, params)) < params.min_pts
CanStartCluster ==
    /\ pc = "scan"
    /\ i < num_points
    /\ points[i + 1].cluster_id = CDBSCAN_UNCLASSIFIED
    /\ Len(Query(tree, points, num_points, i, params)) >= params.min_pts
CanProcessSeed == pc = "expand" /\ current_seed < Len(seeds)

\* Weak fairness of every step of the call.  For the four actions above it
\* is written out, WF_vars(A) being []<>(~ENABLED <<A>>_vars) \/ []<><<A>>_vars,
\* with the condition of the action in the place of ENABLED <<A>>_vars: each
\* of the four changes pc, i or current_seed, so none of its steps leaves
\* the state as it is.
FairSpec ==
    /\ Init /\ [][Next]_vars
    /\ WF_vars(ValidateFails) /\ WF_vars(ValidatePasses)
    /\ WF_vars(ResetLabels) /\ WF_vars(AllocBuffers)
    /\ WF_vars(SkipClassified) /\ WF_vars(FinishCluster) /\ WF_vars(Return)
    /\ ([]<>(~CanBuildTree) \/ []<><<BuildTree>>_vars)
    /\ ([]<>(~CanMarkNoise) \/ []<><<MarkNoise>>_vars)
    /\ ([]<>(~CanStartCluster) \/ []<><<StartCluster>>_vars)
    /\ ([]<>(~CanProcessSeed) \/ []<><<ProcessSeed>>_vars)

\* the widths of the ranges nth_element works on, for the first selection
\* of kdtree_build_recursive in each dimension
FirstSelectionWidths(dim) ==
    nth_element_widths(Iota(num_points), points, 0, num_points - 1,
                       num_points \div 2, dim)
\* each range is strictly narrower than the one before it
Shrinks(w) == \A x \in 1..Len(w) - 1 : w[x + 1] < w[x]

\* C29: every call of cdbscan_cluster returns; in an expansion each pass of
\* the seed loop advances the cursor by one while the list holds at most
\* num_points entries, and the range of nth_element shrinks strictly from
\* one iteration to the next.
C29_CallReturns ==
    /\ (pc # "idle") ~> (pc = "idle")
    /\ [][(pc = "expand" /\ pc' = "expand") =>
             /\ current_seed' = current_seed + 1
             /\ current_seed' <= Len(seeds)
             /\ Len(seeds') <= num_points]_vars
    /\ [](pc = "build" => \A dim \in 0 .. Dims - 1 : Shrinks(FirstSelectionWidths(dim)))

\* a call that built the index with a selection of two iterations or more,
\* expanded a cluster over three seeds or more, and returned
C29_Witness ==
    /\ Succeeded /\ mode = "kdtree" /\ ret >= 1
    /\ current_seed >= 3
    /\ Len(FirstSelectionWidths(0)) >= 2

(* ------------------------ claims on label changes ---------------------- *)
\* the label of point k after the step
LabelAfter(k) == points'[k + 1].cluster_id

\* C30: after the reset of the labels no label returns to unclassified and
\* no cluster id is replaced by noise; a point the outer loop finds to be a
\* core point always has its cluster expanded (the branch of lines 722-726
\* / 789-793 is not taken), and the cluster counter changes only by the
\* increment that ends each expansion.
C30_LabelsMoveForward ==
    [][InRun =>
          /\ \A k \in Idx :
                 /\ Label(k) # CDBSCAN_UNCLASSIFIED => LabelAfter(k) # CDBSCAN_UNCLASSIFIED
                 /\ Label(k) >= 0 => LabelAfter(k) # CDBSCAN_NOISE
          /\ CanStartCluster => (pc' = "expand" /\ LabelAfter(i) # CDBSCAN_NOISE)
          /\ (pc = "expand" /\ pc' = "scan") => cluster_id' = cluster_id + 1
          /\ (pc \in {"scan", "expand"} /\ ~(pc = "expand" /\ pc' = "scan")) =>
                 cluster_id' = cluster_id]_vars

\* two expansions have ended and a point that is not a core point has been
\* taken into a cluster
C30_Witness ==
    /\ pc = "scan" /\ cluster_id >= 2 /\ CleanCall
    /\ \E k \in Idx : Label(k) >= 0 /\ ~IsCore(k) /\ k < i
====
